---- MODULE Spec2Model ----
(***************************************************************************)
(* A model of package handler (src/easyhandler.go, lines 105-363): the     *)
(* FunctionHandlerImpl configuration, its setters, WrapErrorHandler,       *)
(* retryFunction and Try in its sequential and parallel modes, with the    *)
(* goroutines, channels, context deadlines and sleeps that Try creates.    *)
(*                                                                         *)
(* Durations are not measured: an attempt of an operation, a sleep, the    *)
(* scheduling of a goroutine and the time until a deadline may each take   *)
(* any time, so every order of events that some timing allows is a         *)
(* behaviour of the model.                                                 *)
(***************************************************************************)
EXTENDS Integers, Sequences, FiniteSets, TLC

\* ---------------------------------------------------------------- bounds
\* The longest batch handed to Try.
MaxOps == 2
\* The number of setter calls that may run while a Try call is in progress.
MaxRaces == 1
\* The time, in seconds, up to which the clock is followed.
MaxTime == 3

\* The retry counts handed to SetRetry: a negative one, none, and one retry.
RetryValues == {-1, 0, 1}
\* The timeouts handed to SetTimeout, in seconds: negative, zero and
\* positive.  Only the sign of a timeout is read where time is not measured.
TimeoutValues == {-1, 0, 2}

\* ------------------------------------------------------- values and errors
\* An error value.  src says who made it: an operation ("op", with the
\* operation's position and the number of the invocation that failed), Try
\* itself ("try") or the caller's error handler ("handler").
NoErr == [src |-> "nil", msg |-> "", op |-> 0, n |-> 0]
OpError(o, n) == [src |-> "op", msg |-> "attempt failed", op |-> o, n |-> n]
TryError(m) == [src |-> "try", msg |-> m, op |-> 0, n |-> 0]

\* Result[T]: Values or Err.
Ok(values) == [Values |-> values, Err |-> NoErr]
Err(err) == [Values |-> <<>>, Err |-> err]
IsOk(r) == r.Err = NoErr
IsErr(r) == r.Err # NoErr
\* var res Result[any]: the zero value.
ZeroResult == [Values |-> <<>>, Err |-> NoErr]

\* The untyped nil that Try passes to Ok[any](nil).
Nil == 0

\* A variant of the nil slice: an empty one.
EmptySlice == [isNil |-> FALSE, elems |-> <<>>]

\* A []any slice: nil, or a (possibly empty) list of elements.
NilSlice == [isNil |-> TRUE, elems |-> <<>>]
Slice(s) == [isNil |-> FALSE, elems |-> s]

\* ------------------------------------------------------------- operations
\* An operation of the batch is the caller's: each invocation of it may
\* succeed, fail, or take for ever, as the caller's code decides.  What the
\* model knows of it is whether WrapFunction made it (it may also be a
\* func() Result[any] of the caller's own).  The batches handed to Try are
\* one of each length, the operations at odd positions made by WrapFunction.
Batch(n) == [o \in 1..n |-> [wrapped |-> o % 2 = 1]]

\* The values the operation at position o returns when it succeeds.
OpValues(o) == <<10 * o + 1, 10 * o + 2>>

\* What the n-th invocation of the operation at position o returns: its
\* values, or an error of its own.
OpResult(o, n, succeeds) ==
    IF succeeds THEN Ok(OpValues(o)) ELSE Err(OpError(o, n))

\* ---------------------------------------------------------- error handler
\* The caller's handler, as reflect sees it.  What it returns for a
\* failure is the caller's code's decision at each invocation.
Shape(isNil, isFunc, numIn, in0, numOut, out0) ==
    [isNil |-> isNil, isFunc |-> isFunc, numIn |-> numIn, in0IsError |-> in0,
     numOut |-> numOut, out0IsError |-> out0]

MalformedHandlers ==
    { Shape(FALSE, FALSE, 0, FALSE, 0, FALSE),   \* not a function
      Shape(FALSE, TRUE, 0, FALSE, 0, FALSE),    \* func()
      Shape(FALSE, TRUE, 1, FALSE, 0, FALSE),    \* func(int)
      Shape(FALSE, TRUE, 2, TRUE, 0, FALSE),     \* func(error, error)
      Shape(FALSE, TRUE, 1, TRUE, 1, FALSE),     \* func(error) int
      Shape(FALSE, TRUE, 1, TRUE, 2, TRUE) }     \* func(error) (error, error)

WellFormedHandlers ==
    { Shape(FALSE, TRUE, 1, TRUE, 0, FALSE),     \* func(error)
      Shape(FALSE, TRUE, 1, TRUE, 1, TRUE) }     \* func(error) error

NilHandler == Shape(TRUE, FALSE, 0, FALSE, 0, FALSE)

Handlers == MalformedHandlers \cup WellFormedHandlers \cup {NilHandler}

\* WrapErrorHandler: an error unless the handler is a function of exactly
\* one parameter of type error with at most one result, implementing error.
WrapErrorHandler(h) ==
    IF ~h.isFunc
    THEN Err(TryError("provided handler is not a function"))
    ELSE IF h.numIn # 1 \/ ~h.in0IsError
    THEN Err(TryError("the error handler must take an error as an arg"))
    ELSE IF h.numOut > 1 \/ (h.numOut = 1 /\ ~h.out0IsError)
    THEN Err(TryError("the error handler must return at most one error"))
    ELSE Ok(<<h>>)

\* The error a handler returns for the failure e when it returns one.
HandlerError(e) == [src |-> "handler", msg |-> e.msg, op |-> e.op, n |-> e.n]

\* The results handlerFunc.Values[0].Func.Call(err) may give: none for a
\* handler without a result, else the one error it returns (NoErr for nil).
HandlerCall(h, e) ==
    IF h.numOut = 0 THEN {<<>>} ELSE {<<NoErr>>, <<HandlerError(e)>>}

\* Variants of HandlerFatal that lose one half of the test.
HandlerFatalAnyResult(handlerResults) == Len(handlerResults) = 1
HandlerFatalNever(handlerResults) == FALSE

\* len(handlerResults) == 1 && handlerError != nil
HandlerFatal(handlerResults) ==
    Len(handlerResults) = 1 /\ handlerResults[1] # NoErr

\* -------------------------------------------------------------- the state
VARIABLES
    fhi,        \* FunctionHandlerImpl: timeout, retries, isParallel
    races,      \* setter calls made while Try was in progress
    build,      \* whether the build gives each loop iteration its own fn
                \* variable: "?" until the run first depends on it
    tpc,        \* where the Try call is
    handler,    \* Try's handler argument
    funcs,      \* Try's funcs argument
    cfg0,       \* the configuration when Try was called
    idx,        \* the index of the sequential loop, or of the fold
    results,    \* Try's results slice
    resultCh,   \* the parallel mode's resultCh
    ret,        \* what Try returned: <<>> until it returns
    hcalls,     \* the handler's invocations, in order
    upc,        \* per operation: where its unit of work is
    guarded,    \* per operation: whether a deadline guards it
    ctxDone,    \* per operation: whether ctx.Done() is closed
    ch,         \* per operation: the channel ch of capacity 1
    res,        \* per operation: the unit's outcome res
    ipc,        \* per operation: where its retryFunction call is
    fn,         \* per operation: the operation its retryFunction was given
    it,         \* per operation: retryFunction's loop counter i
    rr,         \* per operation: retryFunction's res
    cur,        \* per operation: the invocation retryFunction is in
    att,        \* per operation: invocations made by its retryFunction
    nlog,       \* per operation: LogError calls for its attempts' errors
    calls,      \* per operation: invocations of it begun so far
    clk         \* the clock, where time is measured: the time now, and the
                \* times of each unit of work (ClockFields)

cfgVars == <<fhi, races>>
inVars == <<handler, funcs, cfg0>>
foldVars == <<tpc, idx, results, ret, hcalls>>
tryVars == <<foldVars, resultCh>>
unitVars == <<upc, guarded, ctxDone, ch, res>>
retryVars == <<ipc, fn, it, rr, cur, att, nlog, calls>>
vars == <<cfgVars, build, inVars, tryVars, unitVars, retryVars, clk>>

\* What the clock keeps: the time now and, per unit of work, when it
\* started, when its deadline is, when its outcome was set (end), when
\* retryFunction returned (fin), and when time.Sleep ends (wake).
ClockFields == {"now", "start", "deadline", "end", "fin", "wake"}

Units == DOMAIN upc
NoCall == [op |-> 0, n |-> 0]

\* &FunctionHandlerImpl{}: the zero configuration, and no Try call yet.
Init ==
    /\ fhi = [timeout |-> 0, retries |-> 0, isParallel |-> FALSE]
    /\ races = 0
    /\ build = "?"
    /\ tpc = "idle"
    /\ handler = NilHandler
    /\ funcs = <<>>
    /\ cfg0 = fhi
    /\ idx = 0
    /\ results = <<>>
    /\ resultCh = <<>>
    /\ ret = <<>>
    /\ hcalls = <<>>
    /\ upc = <<>> /\ guarded = <<>> /\ ctxDone = <<>> /\ ch = <<>> /\ res = <<>>
    /\ ipc = <<>> /\ fn = <<>> /\ it = <<>> /\ rr = <<>> /\ cur = <<>>
    /\ att = <<>> /\ nlog = <<>> /\ calls = <<>>
    /\ clk = [f \in ClockFields |-> IF f = "now" THEN 0 ELSE [i \in 1..MaxOps |-> 0]]

\* ------------------------------------------------------------ the setters
SetTimeout(duration) ==
    /\ fhi' = [fhi EXCEPT !.timeout = duration]
    /\ UNCHANGED <<build, inVars, tryVars, unitVars, retryVars>>

SetRetry(retries) ==
    /\ fhi' = [fhi EXCEPT !.retries = retries]
    /\ UNCHANGED <<build, inVars, tryVars, unitVars, retryVars>>

SetParallel(isParallel) ==
    /\ fhi' = [fhi EXCEPT !.isParallel = isParallel]
    /\ UNCHANGED <<build, inVars, tryVars, unitVars, retryVars>>

\* When the caller calls a setter: before it calls Try, or from another
\* goroutine while the Try call is in progress.
BeforeTry == tpc = "idle" /\ UNCHANGED <<races, clk>>
DuringTry ==
    /\ tpc \in {"seq", "par", "fold"}
    /\ races < MaxRaces
    /\ races' = races + 1
    /\ UNCHANGED clk

\* ------------------------------------------------------------------- Try
\* Try's pre-flight checks, in the code's order: the handler, then the list.
PreFlight(h, fs) ==
    IF IsErr(WrapErrorHandler(h))
    THEN Err(TryError("invalid error handler"))
    ELSE IF Len(fs) = 0
    THEN Err(TryError("no functions provided"))
    ELSE Ok(<<>>)

\* The call of Try up to the start of its loop: reflect panics on a nil
\* handler; a failed check returns; else the loop of the mode begins.
TryCall(h, fs) ==
    /\ tpc = "idle"
    /\ handler' = h /\ funcs' = fs /\ cfg0' = fhi
    /\ UNCHANGED <<cfgVars, build, results, resultCh, hcalls>>
    /\ LET n == Len(fs)
           pre == PreFlight(h, fs)
           go == ~h.isNil /\ IsOk(pre)
       IN /\ tpc' = IF h.isNil THEN "panicked"
                    ELSE IF IsErr(pre) THEN "returned"
                    ELSE IF fhi.isParallel THEN "par" ELSE "seq"
          /\ ret' = IF ~h.isNil /\ IsErr(pre)
                    THEN <<[results |-> NilSlice, res |-> pre]>>
                    ELSE <<>>
          /\ idx' = IF go /\ ~fhi.isParallel THEN 1 ELSE 0
          /\ upc' = [i \in 1..n |->
                       IF go /\ (fhi.isParallel \/ i = 1) THEN "launch" ELSE "idle"]
          /\ guarded' = [i \in 1..n |-> FALSE]
          /\ ctxDone' = [i \in 1..n |-> FALSE]
          /\ ch' = [i \in 1..n |-> <<>>]
          /\ res' = [i \in 1..n |-> ZeroResult]
          /\ ipc' = [i \in 1..n |-> "none"]
          /\ fn' = [i \in 1..n |-> 0]
          /\ it' = [i \in 1..n |-> 0]
          /\ rr' = [i \in 1..n |-> ZeroResult]
          /\ cur' = [i \in 1..n |-> NoCall]
          /\ att' = [i \in 1..n |-> 0]
          /\ nlog' = [i \in 1..n |-> 0]
          /\ calls' = [i \in 1..n |-> 0]

\* A variant that also engages the deadline for a zero timeout.
TimeoutEngagedFromZero(timeout) == timeout >= 0

\* if fhi.timeout > 0
TimeoutEngaged(timeout) == timeout > 0

\* The start of one operation's unit of work: with a positive timeout the
\* context and ch are made and a goroutine runs retryFunction; without one
\* retryFunction is called in place.
Launch(i) ==
    /\ tpc \in {"seq", "par"}
    /\ upc[i] = "launch"
    /\ IF TimeoutEngaged(fhi.timeout)
       THEN /\ guarded' = [guarded EXCEPT ![i] = TRUE]
            /\ upc' = [upc EXCEPT ![i] = "poll"]
       ELSE /\ upc' = [upc EXCEPT ![i] = "sync"]
            /\ UNCHANGED guarded
    /\ ipc' = [ipc EXCEPT ![i] = "loop"]
    /\ UNCHANGED <<cfgVars, build, inVars, tryVars, ctxDone, ch, res,
                   fn, it, rr, cur, att, nlog, calls>>

\* ---------------------------------------------------------- retryFunction
\* The sequential loop's goroutine calls retryFunction(fn) with the loop's
\* fn variable, which its closure captures.  A build that gives every
\* iteration a variable of its own ("per-iteration") passes the unit's own
\* operation; a build that shares one variable between the iterations
\* ("shared") passes the operation the loop is at when the goroutine gets
\* to the call.  The parallel loop passes fn to its goroutine as an argument,
\* and a call in place reads fn in its own iteration.
Builds == {"per-iteration", "shared"}

\* Whether the operation unit i's goroutine gets, were it to start now,
\* depends on the build.
BuildMatters(i) == ~cfg0.isParallel /\ guarded[i] /\ idx # i

\* A variant that passes the operation after the unit's own.
CalleeNext(i, b) == IF i < Len(funcs) THEN i + 1 ELSE i

\* The operation retryFunction is called with by unit i under build b.
Callee(i, b) == IF BuildMatters(i) /\ b = "shared" THEN idx ELSE i

\* i <= fhi.retries
LoopCondition(i_, retries) == i_ <= retries

\* The unit of work of operation i has its outcome r.  The sequential loop
\* goes on to fold it; a parallel worker sends it on resultCh, which has
\* room for every worker's outcome, and its deferred wg.Done() runs.
Outcome(i, r) ==
    /\ res' = [res EXCEPT ![i] = r]
    /\ IF tpc = "par"
       THEN /\ resultCh' = Append(resultCh, [unit |-> i, res |-> r])
            /\ upc' = [upc EXCEPT ![i] = "done"]
       ELSE /\ upc' = [upc EXCEPT ![i] = "got"]
            /\ UNCHANGED resultCh

\* A variant in which a value that finds no select waiting is also sent
\* on resultCh.
DeliveredToAll(i, r) ==
    /\ ipc' = [ipc EXCEPT ![i] = "sent"]
    /\ IF upc[i] \in {"sync", "parked"}
       THEN /\ Outcome(i, r)
            /\ UNCHANGED ch
       ELSE /\ ch' = [ch EXCEPT ![i] = <<r>>]
            /\ resultCh' = IF tpc = "par"
                            THEN Append(resultCh, [unit |-> i, res |-> r])
                            ELSE resultCh
            /\ UNCHANGED <<res, upc>>

\* retryFunction's return value reaches its receiver: the caller when it
\* was called in place; else ch, from which a select parked on it takes
\* the value at once.
Delivered(i, r) ==
    /\ ipc' = [ipc EXCEPT ![i] = "sent"]
    /\ IF upc[i] \in {"sync", "parked"}
       THEN /\ Outcome(i, r)
            /\ UNCHANGED ch
       ELSE /\ ch' = [ch EXCEPT ![i] = <<r>>]
            /\ UNCHANGED <<res, upc, resultCh>>

\* The loop's test and what follows it: fn is invoked when it passes, and
\* res is returned when it fails.
LoopTest(i, i_, o) ==
    /\ it' = [it EXCEPT ![i] = i_]
    /\ fn' = [fn EXCEPT ![i] = o]
    /\ IF LoopCondition(i_, fhi.retries)
       THEN /\ calls' = [calls EXCEPT ![o] = @ + 1]
            /\ cur' = [cur EXCEPT ![i] = [op |-> o, n |-> calls[o] + 1]]
            /\ att' = [att EXCEPT ![i] = @ + 1]
            /\ ipc' = [ipc EXCEPT ![i] = "call"]
            /\ UNCHANGED <<upc, res, ch, resultCh>>
       ELSE /\ Delivered(i, rr[i])
            /\ UNCHANGED <<calls, cur, att>>
    /\ UNCHANGED <<cfgVars, inVars, foldVars, guarded, ctxDone, rr, nlog>>

\* retryFunction(fn) is called: the argument is read, then the loop starts
\* with i := 0.
RetryStart(i) ==
    /\ ipc[i] = "loop"
    /\ IF BuildMatters(i)
       THEN \E b \in Builds :
              /\ build \in {"?", b}
              /\ build' = b
              /\ LoopTest(i, 0, Callee(i, b))
       ELSE /\ UNCHANGED build
            /\ LoopTest(i, 0, Callee(i, build))

\* time.Sleep is over: i++, and the loop's test again.
RetryAgain(i) ==
    /\ ipc[i] = "sleep"
    /\ UNCHANGED build
    /\ LoopTest(i, it[i] + 1, fn[i])

\* LogError calls for one failed attempt: one in retryFunction, and one
\* more in the operation itself when WrapFunction made it.
AttemptLogs(op) == IF op.wrapped THEN 2 ELSE 1

\* fn returns: a success is returned at once; a failure is logged and
\* followed by time.Sleep.
CallReturn(i) ==
    /\ ipc[i] = "call"
    /\ \E succeeds \in BOOLEAN :
       LET r == OpResult(cur[i].op, cur[i].n, succeeds) IN
       /\ rr' = [rr EXCEPT ![i] = r]
       /\ IF IsOk(r)
          THEN /\ Delivered(i, r)
               /\ UNCHANGED nlog
          ELSE /\ ipc' = [ipc EXCEPT ![i] = "sleep"]
               /\ nlog' = [nlog EXCEPT ![i] = @ + AttemptLogs(funcs[cur[i].op])]
               /\ UNCHANGED <<upc, res, ch, resultCh>>
    /\ cur' = [cur EXCEPT ![i] = NoCall]
    /\ UNCHANGED <<cfgVars, build, inVars, foldVars, guarded, ctxDone,
                   fn, it, att, calls>>

\* ------------------------------------------------------------- the select
\* A variant in which the timeout case leaves res as it was declared.
TimedOutUnset == ZeroResult

\* err := fmt.Errorf("function timed out"); res = Err[any](err)
TimedOut == Err(TryError("function timed out"))

\* A variant of the select with a default case that leaves res unset.
PollNoWait(i) ==
    /\ upc[i] = "poll"
    /\ Outcome(i, ZeroResult)
    /\ UNCHANGED <<cfgVars, build, inVars, foldVars, guarded, ctxDone, ch, retryVars>>

\* The select is reached.  A case that is ready is taken, either one when
\* both are; with none ready the goroutine parks on both channels.
Poll(i) ==
    /\ upc[i] = "poll"
    /\ \/ /\ ch[i] # <<>>
          /\ Outcome(i, ch[i][1])
       \/ /\ ctxDone[i]
          /\ Outcome(i, TimedOut)
       \/ /\ ch[i] = <<>> /\ ~ctxDone[i]
          /\ upc' = [upc EXCEPT ![i] = "parked"]
          /\ UNCHANGED <<res, resultCh>>
    /\ UNCHANGED <<cfgVars, build, inVars, foldVars, guarded, ctxDone, ch, retryVars>>

\* A variant in which closing ctx.Done() wakes no select parked on it.
DeadlineFireNoWake(i) ==
    /\ guarded[i] /\ ~ctxDone[i] /\ upc[i] \in {"poll", "parked"}
    /\ ctxDone' = [ctxDone EXCEPT ![i] = TRUE]
    /\ UNCHANGED <<cfgVars, build, inVars, tryVars, guarded, ch, res, upc, retryVars>>

\* The deadline of context.WithTimeout is reached and ctx.Done() is closed;
\* a select parked on it takes the timeout case at once.
DeadlineFire(i) ==
    /\ guarded[i] /\ ~ctxDone[i] /\ upc[i] \in {"poll", "parked"}
    /\ ctxDone' = [ctxDone EXCEPT ![i] = TRUE]
    /\ IF upc[i] = "parked"
       THEN Outcome(i, TimedOut)
       ELSE UNCHANGED <<res, upc, resultCh>>
    /\ UNCHANGED <<cfgVars, build, inVars, foldVars, guarded, ch, retryVars>>

\* ---------------------------------------------------------------- the fold
\* Variants of the append: in front of results, and only into an empty one.
AppendValuesInFront(rs, r) == r.Values \o rs
AppendValuesOnce(rs, r) == IF rs = <<>> THEN r.Values ELSE rs

\* results = append(results, res.Values...)
AppendValues(rs, r) == rs \o r.Values

\* A variant of the loop's end that stays at the element it is at.
ContinueSame(rs) ==
    IF idx = Len(funcs)
    THEN /\ ret' = <<[results |-> Slice(rs), res |-> Ok(<<Nil>>)]>>
         /\ tpc' = "returned"
         /\ idx' = idx
    ELSE UNCHANGED <<idx, ret, tpc>>

\* The end of a loop body: the next element, or Try's final return.
Continue(rs) ==
    IF idx = Len(funcs)
    THEN /\ ret' = <<[results |-> Slice(rs), res |-> Ok(<<Nil>>)]>>
         /\ tpc' = "returned"
         /\ idx' = idx
    ELSE /\ idx' = idx + 1
         /\ UNCHANGED <<ret, tpc>>

\* One outcome is folded: a failure goes to the handler, whose non-nil
\* error ends Try; a success is appended to results.
Fold(u, r) ==
    IF IsErr(r)
    THEN \E handlerResults \in HandlerCall(handler, r.Err) :
         /\ hcalls' = Append(hcalls, [unit |-> u, err |-> r.Err,
                                       out |-> handlerResults])
         /\ UNCHANGED results
         /\ IF HandlerFatal(handlerResults)
            THEN /\ ret' = <<[results |-> NilSlice, res |-> Err(handlerResults[1])]>>
                 /\ tpc' = "returned"
                 /\ idx' = idx
            ELSE Continue(results)
    ELSE /\ results' = AppendValues(results, r)
         /\ UNCHANGED hcalls
         /\ Continue(AppendValues(results, r))

\* The sequential loop folds the outcome of the operation it is at.
SeqFold ==
    /\ tpc = "seq" /\ upc[idx] = "got"
    /\ Fold(idx, res[idx])
    /\ upc' = [i \in Units |->
                 IF i = idx THEN "done"
                 ELSE IF i = idx' THEN "launch" ELSE upc[i]]
    /\ UNCHANGED <<cfgVars, build, inVars, resultCh, guarded, ctxDone, ch, res, retryVars>>

\* A variant of the join that returns when the first worker is done.
ParJoinAtFirst ==
    /\ tpc = "par" /\ \E i \in Units : upc[i] = "done"
    /\ tpc' = "fold" /\ idx' = 1
    /\ UNCHANGED <<cfgVars, build, inVars, results, resultCh, ret, hcalls,
                   unitVars, retryVars>>

\* wg.Wait() returns and resultCh is closed.
ParJoin ==
    /\ tpc = "par" /\ \A i \in Units : upc[i] = "done"
    /\ tpc' = "fold" /\ idx' = 1
    /\ UNCHANGED <<cfgVars, build, inVars, results, resultCh, ret, hcalls,
                   unitVars, retryVars>>

\* A variant of the fold that goes on after Try has returned.
ParFoldOn ==
    /\ tpc \in {"fold", "returned"} /\ cfg0.isParallel /\ Len(resultCh) > 0
    /\ Fold(resultCh[idx].unit, resultCh[idx].res)
    /\ UNCHANGED <<cfgVars, build, inVars, resultCh, unitVars, retryVars>>

\* for res := range resultCh
ParFold ==
    /\ tpc = "fold"
    /\ Fold(resultCh[idx].unit, resultCh[idx].res)
    /\ UNCHANGED <<cfgVars, build, inVars, resultCh, unitVars, retryVars>>

\* ------------------------------------------------------ the specification
\* Time is not measured.
NoClock == UNCHANGED clk

\* The caller configures the handler, then calls Try.
Next ==
    \/ BeforeTry /\ \E d \in TimeoutValues : SetTimeout(d)
    \/ BeforeTry /\ \E r \in RetryValues : SetRetry(r)
    \/ BeforeTry /\ \E b \in BOOLEAN : SetParallel(b)
    \/ NoClock /\ \E h \in Handlers, n \in 0..MaxOps : TryCall(h, Batch(n))
    \/ NoClock /\ \E i \in Units : Launch(i)
    \/ NoClock /\ \E i \in Units : RetryStart(i)
    \/ NoClock /\ \E i \in Units : RetryAgain(i)
    \/ NoClock /\ \E i \in Units : CallReturn(i)
    \/ NoClock /\ \E i \in Units : Poll(i)
    \/ NoClock /\ \E i \in Units : DeadlineFire(i)
    \/ NoClock /\ SeqFold
    \/ NoClock /\ ParJoin
    \/ NoClock /\ ParFold

Spec == Init /\ [][Next]_vars

\* The same, with setters also called while Try is in progress.
NextRace ==
    \/ Next
    \/ DuringTry /\ \E d \in TimeoutValues : SetTimeout(d)
    \/ DuringTry /\ \E r \in RetryValues : SetRetry(r)
    \/ DuringTry /\ \E b \in BOOLEAN : SetParallel(b)

SpecRace == Init /\ [][NextRace]_vars

\* The steps of Try's own goroutine and of its workers, and the firing of a
\* deadline: what the runtime's scheduler and timers do without waiting
\* for an operation of the caller's.
TrySteps ==
    /\ NoClock
    /\ \/ \E i \in Units : Launch(i)
       \/ \E i \in Units : Poll(i)
       \/ \E i \in Units : DeadlineFire(i)
       \/ SeqFold
       \/ ParJoin
       \/ ParFold

\* The same program where goroutines that can run do run, timers fire and
\* the handler returns; an operation of the caller's may take for ever.
SpecLive == Init /\ [][Next]_vars /\ WF_vars(TrySteps)

\* ---------------------------------------------------------------- the clock
\* time.Second, the length of retryFunction's time.Sleep, in seconds.
Second == 1

\* A variant in which the deadline is twice the timeout away.
DeadlineTwice(t, timeout) == t + 2 * timeout

\* context.WithTimeout(context.Background(), fhi.timeout): the deadline is
\* the timeout after the time of the call.
DeadlineAt(t, timeout) == t + timeout

\* The clock is read at what unit i's step does: the start of the unit of
\* work with its context's deadline, the start of time.Sleep(time.Second),
\* the return of retryFunction, and the setting of the unit's outcome.
Clocked(i) ==
    clk' = [clk EXCEPT
        !.start[i] = IF upc[i] = "launch" THEN clk.now ELSE @,
        !.deadline[i] = IF upc[i] = "launch" /\ guarded'[i]
                        THEN DeadlineAt(clk.now, fhi.timeout) ELSE @,
        !.wake[i] = IF ipc[i] # "sleep" /\ ipc'[i] = "sleep"
                    THEN clk.now + Second ELSE @,
        !.fin[i] = IF ipc[i] # "sent" /\ ipc'[i] = "sent" THEN clk.now ELSE @,
        !.end[i] = IF upc[i] \notin {"got", "done"} /\ upc'[i] \in {"got", "done"}
                   THEN clk.now ELSE @]

\* time.Sleep(time.Second) of unit i's retryFunction is over.
SleepOver(i) == clk.now >= clk.wake[i]

\* The deadline of unit i's context is reached.
DeadlineReached(i) == clk.now >= clk.deadline[i]

\* Time passes while a select waits for its operation or retryFunction runs
\* in place, and no further than the deadline of a waiting select: its
\* timer fires at the deadline.  Starting a unit of work, the select and
\* the fold take no time.
Tick ==
    /\ tpc \in {"seq", "par"}
    /\ clk.now < MaxTime
    /\ \E i \in Units : upc[i] \in {"parked", "sync"}
    /\ \A i \in Units :
         /\ upc[i] \notin {"launch", "poll", "got"}
         /\ upc[i] = "parked" => ~DeadlineReached(i)
    /\ clk' = [clk EXCEPT !.now = @ + 1]
    /\ UNCHANGED <<cfgVars, build, inVars, tryVars, unitVars, retryVars>>

\* Try with the clock: an attempt takes any time, time.Sleep takes a second
\* or longer, and the deadline's timer fires at the deadline.
NextClock ==
    \/ BeforeTry /\ \E d \in TimeoutValues : SetTimeout(d)
    \/ BeforeTry /\ \E r \in RetryValues : SetRetry(r)
    \/ BeforeTry /\ \E b \in BOOLEAN : SetParallel(b)
    \/ NoClock /\ \E h \in Handlers, n \in 0..MaxOps : TryCall(h, Batch(n))
    \/ \E i \in Units : Launch(i) /\ Clocked(i)
    \/ \E i \in Units : RetryStart(i) /\ Clocked(i)
    \/ \E i \in Units : SleepOver(i) /\ RetryAgain(i) /\ Clocked(i)
    \/ \E i \in Units : CallReturn(i) /\ Clocked(i)
    \/ \E i \in Units : Poll(i) /\ Clocked(i)
    \/ \E i \in Units : DeadlineReached(i) /\ DeadlineFire(i) /\ Clocked(i)
    \/ NoClock /\ SeqFold
    \/ NoClock /\ ParJoin
    \/ NoClock /\ ParFold
    \/ Tick

SpecClock == Init /\ [][NextClock]_vars

\* --------------------------------------------------------------- the types
TypeOK ==
    /\ fhi \in [timeout : TimeoutValues, retries : RetryValues, isParallel : BOOLEAN]
    /\ races \in 0..MaxRaces
    /\ tpc \in {"idle", "seq", "par", "fold", "returned", "panicked"}
    /\ Len(funcs) <= MaxOps
    /\ Len(ret) <= 1
    /\ \A i \in Units :
         /\ upc[i] \in {"idle", "launch", "sync", "poll", "parked", "got", "done"}
         /\ ipc[i] \in {"none", "loop", "call", "sleep", "sent"}
         /\ Len(ch[i]) <= 1
    /\ clk.now \in 0..MaxTime

\* ============================================================== properties
\* What Try returned.
Returned == tpc = "returned" /\ Len(ret) = 1
Aggregate == ret[1].results
Outcome0 == ret[1].res
Success == Ok(<<Nil>>)

\* The values of the operations 1..n, in list order.
RECURSIVE ValuesUpTo(_)
ValuesUpTo(n) == IF n = 0 THEN <<>> ELSE ValuesUpTo(n - 1) \o OpValues(n)

\* The outcome of unit i is the success of the first invocation of its
\* operation.
FirstTry(i) ==
    /\ upc[i] = "done" /\ ipc[i] = "sent"
    /\ att[i] = 1 /\ fn[i] = i
    /\ IsOk(res[i])

AllFirstTry == Len(funcs) > 0 /\ \A i \in Units : FirstTry(i)

\* C1: in sequential mode, once every operation of a non-empty list has
\* succeeded on its first attempt, Try has returned Success with an
\* aggregate that is the operations' values concatenated in list order.
C1_SequentialConcatenation ==
    (~cfg0.isParallel /\ tpc \in {"seq", "returned"} /\ AllFirstTry)
        => ret = <<[results |-> Slice(ValuesUpTo(Len(funcs))), res |-> Success]>>

\* C1 happens: a sequential Try of two operations, with a deadline on each,
\* has returned after both succeeded at once.
C1_Witness ==
    /\ ~cfg0.isParallel /\ Returned /\ AllFirstTry
    /\ Len(funcs) >= 2
    /\ guarded[1] /\ guarded[2]
    /\ Aggregate.elems = ValuesUpTo(Len(funcs))

\* C2: an operation that fails its first k attempts and then succeeds, with
\* a retry count of at least k, ends in Success with exactly k attempt
\* errors logged; with a smaller retry count it ends in Failure with the
\* last attempt's error after exactly retries+1 attempts.  Stated of every
\* retryFunction call that has returned, for the retry counts the
\* configuration is meant to hold (no negative ones).
C2_RetryCounts ==
    \A i \in Units :
        (ipc[i] = "sent" /\ fhi.retries >= 0) =>
            IF IsOk(rr[i])
            THEN /\ att[i] - 1 <= fhi.retries
                 /\ nlog[i] = att[i] - 1
            ELSE /\ att[i] = fhi.retries + 1
                 /\ rr[i].Err.src = "op" /\ rr[i].Err.op = fn[i]

\* C2 happens: an operation made by WrapFunction failed once, succeeded on
\* its retry, and its one failure was logged twice.
C2_Witness ==
    \E i \in Units :
        /\ ipc[i] = "sent" /\ IsOk(rr[i]) /\ att[i] = 2
        /\ funcs[fn[i]].wrapped
        /\ nlog[i] = 2

\* The handler has returned nil, or nothing, every time it was invoked.
QuietHandler == \A k \in 1..Len(hcalls) : hcalls[k].out \in {<<>>, <<NoErr>>}

\* Try got past its pre-flight checks.
Started == Len(funcs) > 0 /\ upc[1] # "idle"

\* The units in the order their outcomes are folded.
FoldOrder ==
    IF cfg0.isParallel
    THEN [k \in 1..Len(resultCh) |-> resultCh[k].unit]
    ELSE [k \in 1..Len(funcs) |-> k]

\* The values of the Success outcomes among the first k folded.
RECURSIVE SuccessValues(_)
SuccessValues(k) ==
    IF k = 0 THEN <<>>
    ELSE SuccessValues(k - 1) \o
         (IF IsOk(res[FoldOrder[k]]) THEN res[FoldOrder[k]].Values ELSE <<>>)

Elems(sq) == {sq[p] : p \in 1..Len(sq)}

C4_SequentialFatal ==
    LET last == hcalls[Len(hcalls)] IN
    (~cfg0.isParallel /\ Len(hcalls) > 0
        /\ Len(last.out) = 1 /\ last.out[1] # NoErr) =>
        /\ Returned
        /\ ret = <<[results |-> NilSlice, res |-> Err(last.out[1])]>>
        /\ \A j \in Units : j > last.unit => calls[j] = 0 /\ upc[j] = "idle"

\* C4 happens: the handler returned an error for the first of two
\* operations, and the second was never started.
C4_Witness ==
    /\ ~cfg0.isParallel /\ Returned /\ Len(funcs) = 2
    /\ Len(hcalls) = 1 /\ hcalls[1].unit = 1
    /\ IsErr(Outcome0) /\ Outcome0.Err.src = "handler"
    /\ calls[2] = 0

\* No operation has been invoked and the handler has not been invoked.
NothingRan == hcalls = <<>> /\ \A i \in Units : calls[i] = 0

\* Try returned the failure m of a pre-flight check.
PreFlightFailure(m) ==
    /\ Returned
    /\ Aggregate.isNil /\ Aggregate.elems = <<>>
    /\ Outcome0 = Err(TryError(m))
    /\ NothingRan

\* C5: the pre-flight checks run before any operation: Try called with an
\* empty list returns the Failure "no operations provided", and Try called
\* with a handler that is not well-formed returns the Failure "invalid error
\* handler"; the aggregate is nil and nothing is invoked.  (Of a call with
\* both an empty list and such a handler either failure is accepted.)
C5_PreFlight ==
    tpc # "idle" =>
        IF handler \in WellFormedHandlers
        THEN Len(funcs) = 0 => PreFlightFailure("no operations provided")
        ELSE \/ PreFlightFailure("invalid error handler")
             \/ Len(funcs) = 0 /\ PreFlightFailure("no operations provided")

\* C5 happens: Try was called with a nil handler and panicked in reflect
\* without returning anything.
C5_Witness ==
    /\ tpc = "panicked" /\ handler.isNil /\ Len(funcs) > 0
    /\ ret = <<>> /\ NothingRan

\* The outcome of unit i has been folded.
Folded(i) ==
    IF cfg0.isParallel
    THEN \E p \in 1..Len(resultCh) :
           /\ resultCh[p].unit = i
           /\ \/ tpc = "fold" /\ p < idx
              \/ tpc = "returned" /\ p <= idx
    ELSE upc[i] = "done"

\* C6 as amended: with a positive timeout, an operation whose unit of work
\* has its outcome while its retrying invocation has delivered none has the
\* outcome Failure "function timed out", the deadline having fired; that
\* failure is what the handler is given when the outcome is folded.
C6_TimedOutOutcome ==
    \A i \in Units :
        /\ (guarded[i] /\ upc[i] \in {"got", "done"} /\ ipc[i] # "sent") =>
               /\ res[i] = Err(TryError("function timed out"))
               /\ ctxDone[i]
        /\ (Folded(i) /\ guarded[i] /\ ipc[i] # "sent") =>
               \E k \in 1..Len(hcalls) :
                   /\ hcalls[k].unit = i
                   /\ hcalls[k].err = TryError("function timed out")

\* C6 happens: Try has returned, having given the handler the timeout
\* failure of an operation whose invocation is still running.
C6_Witness ==
    /\ Returned
    /\ \E i \in Units :
         /\ guarded[i] /\ ctxDone[i] /\ ipc[i] = "call"
         /\ res[i] = Err(TryError("function timed out"))
         /\ \E k \in 1..Len(hcalls) : hcalls[k].unit = i

\* C6 as stated: when the deadline has fired and the invocation has
\* delivered no outcome, the operation's outcome is the Failure "operation
\* timed out".
C6_OperationTimedOut ==
    \A i \in Units :
        (guarded[i] /\ ctxDone[i] /\ upc[i] \in {"got", "done"} /\ ipc[i] # "sent")
            => res[i] = Err(TryError("operation timed out"))

\* C7: with timeout zero no deadline is engaged and no timeout failure is
\* produced, and Try, in either mode, has not returned while an invocation
\* made in place is outstanding: if that invocation never returns, Try
\* never does.
C7_ZeroTimeoutBlocks ==
    /\ cfg0.timeout = 0 =>
         /\ \A i \in Units :
              /\ ~guarded[i] /\ ~ctxDone[i]
              /\ res[i] # Err(TryError("function timed out"))
         /\ \A k \in 1..Len(hcalls) : hcalls[k].err.src # "try"
    /\ \A i \in Units :
         (upc[i] = "sync" /\ ipc[i] = "call") =>
             tpc \in {"seq", "par"} /\ ret = <<>>

\* C7 happens: with timeout zero in parallel mode one operation has
\* delivered its outcome and Try waits for another, whose invocation is
\* outstanding.
C7_Witness ==
    /\ cfg0.timeout = 0 /\ cfg0.isParallel /\ tpc = "par"
    /\ \E i, j \in Units :
         /\ upc[i] = "sync" /\ ipc[i] = "call"
         /\ upc[j] = "done"

\* The outcome of every unit is the success of an invocation of its
\* operation.
AllSucceed ==
    /\ Len(funcs) > 0
    /\ \A i \in Units :
         /\ upc[i] = "done" /\ ipc[i] = "sent"
         /\ att[i] >= 1 /\ fn[i] = i
         /\ IsOk(res[i])

\* The positions of sq at which v is.
Positions(sq, v) == {p \in 1..Len(sq) : sq[p] = v}

\* sub is in sq as one contiguous run.
Contiguous(sq, sub) ==
    \E p \in 0..(Len(sq) - Len(sub)) :
        \A q \in 1..Len(sub) : sq[p + q] = sub[q]

\* C8: in parallel mode, when all N operations succeed, however the workers
\* interleave, Try returns Success and an aggregate that holds every value
\* of every operation exactly once and nothing else, the values of one
\* operation next to each other in that operation's order.
C8_ParallelAllValues ==
    (cfg0.isParallel /\ Returned /\ AllSucceed) =>
        /\ Outcome0 = Success
        /\ ~Aggregate.isNil
        /\ Len(Aggregate.elems) = Len(ValuesUpTo(Len(funcs)))
        /\ \A i \in Units :
             /\ Contiguous(Aggregate.elems, OpValues(i))
             /\ \A v \in Elems(OpValues(i)) :
                  Cardinality(Positions(Aggregate.elems, v)) = 1

\* C8 happens: a parallel Try of two operations returned their values with
\* the second operation's before the first's.
C8_Witness ==
    /\ cfg0.isParallel /\ Returned /\ AllSucceed
    /\ Len(funcs) = 2
    /\ Aggregate.elems = OpValues(2) \o OpValues(1)

\* C9: whatever Try returns is a Success outcome with a non-nil aggregate,
\* or a Failure outcome with a nil aggregate that holds nothing.
C9_ReturnShapes ==
    /\ tpc = "returned" <=> Len(ret) = 1
    /\ Len(ret) = 1 =>
         \/ /\ ret[1].res = Success
            /\ ~ret[1].results.isNil
         \/ /\ IsErr(ret[1].res)
            /\ ret[1].results.isNil
            /\ ret[1].results.elems = <<>>

\* C9 happens: Try returned the handler's error and a nil aggregate after
\* an earlier operation's values had been appended to results.
C9_Witness ==
    /\ Returned
    /\ IsErr(Outcome0) /\ Outcome0.Err.src = "handler"
    /\ results # <<>>
    /\ Aggregate.isNil

\* C10: a Try call in progress behaves by the configuration in force when
\* it was called, also when a setter is called meanwhile: every unit of
\* work is guarded by a deadline exactly if that timeout was positive, no
\* retryFunction call makes more attempts than that retry count allows or
\* gives up before them, and the mode is that parallel flag's.
C10_ConfigurationAtCall ==
    /\ tpc \in {"par", "fold"} => cfg0.isParallel
    /\ tpc = "seq" => ~cfg0.isParallel
    /\ \A i \in Units :
         /\ upc[i] \notin {"idle", "launch"} => (guarded[i] <=> cfg0.timeout > 0)
         /\ att[i] <= (IF cfg0.retries < 0 THEN 0 ELSE cfg0.retries + 1)
         /\ (ipc[i] = "sent" /\ IsErr(rr[i])) => att[i] = cfg0.retries + 1

\* C10 happens: SetRetry was called while Try was in progress, and a
\* retryFunction call of that Try made more attempts than the retry count
\* Try was called with allows.
C10_Witness ==
    /\ races > 0 /\ cfg0.retries = 0 /\ fhi.retries = 1
    /\ \E i \in Units : att[i] = 2

\* C11: in parallel mode the handler is not invoked and nothing is appended
\* to results before every operation's unit of work has its outcome, a
\* completion or a timeout, and has sent it: the fold begins after the join.
C11_JoinBeforeFold ==
    (cfg0.isParallel /\ Started
        /\ (hcalls # <<>> \/ results # <<>> \/ tpc \in {"fold", "returned"})) =>
        /\ \A i \in Units : upc[i] = "done"
        /\ Len(resultCh) = Len(funcs)
        /\ \A i \in Units :
             Cardinality({p \in 1..Len(resultCh) : resultCh[p].unit = i}) = 1

\* C11 happens: the join is over and the fold has not yet begun, one
\* operation having timed out with its invocation still running.
C11_Witness ==
    /\ cfg0.isParallel /\ tpc = "fold" /\ idx = 1
    /\ hcalls = <<>> /\ results = <<>>
    /\ Len(funcs) = 2
    /\ \E i \in Units :
         /\ res[i] = Err(TryError("function timed out"))
         /\ ipc[i] = "call"

\* C12: the handler is invoked at most once for an operation, and with the
\* error of that operation's final outcome: the timeout error, or the error
\* of the last attempt its retryFunction made before it returned; never for
\* an operation whose outcome is a Success.
C12_HandlerOncePerOperation ==
    /\ \A k, l \in 1..Len(hcalls) :
         hcalls[k].unit = hcalls[l].unit => k = l
    /\ \A k \in 1..Len(hcalls) :
         LET u == hcalls[k].unit IN
         /\ upc[u] = "done"
         /\ IsErr(res[u])
         /\ hcalls[k].err = res[u].Err
         /\ \/ hcalls[k].err = TryError("function timed out")
            \/ /\ hcalls[k].err.src = "op"
               /\ ipc[u] = "sent"
               /\ rr[u].Err = hcalls[k].err

\* C12 happens: an operation failed, was retried and failed again, and the
\* handler was invoked once, with the second failure.
C12_Witness ==
    /\ Len(hcalls) = 1
    /\ LET u == hcalls[1].unit IN
       /\ att[u] = 2 /\ fn[u] = u
       /\ hcalls[1].err = OpError(u, 2)
       /\ nlog[u] >= 2

\* C13: whatever retry count was set, retryFunction makes at least one
\* attempt: a retryFunction call that has returned has invoked its
\* operation, and an operation whose outcome is a Success was invoked.
C13_AtLeastOneAttempt ==
    \A i \in Units :
        /\ ipc[i] = "sent" => att[i] >= 1
        /\ (upc[i] \in {"got", "done"} /\ IsOk(res[i])) => calls[i] >= 1

\* C13 happens: with a retry count of -1 Try returned Success and an empty
\* aggregate without any operation of the batch having been invoked.
C13_Witness ==
    /\ cfg0.retries = -1 /\ Returned /\ Started
    /\ Outcome0 = Success /\ Aggregate = Slice(<<>>)
    /\ \A i \in Units : upc[i] = "done" /\ calls[i] = 0

\* C14: retryFunction sleeps only between attempts: it is in time.Sleep
\* only when the retry count allows a further attempt after the one that
\* failed.
C14_SleepOnlyBetweenAttempts ==
    \A i \in Units :
        ipc[i] = "sleep" => it[i] + 1 <= fhi.retries

\* C14 happens: the last attempt the retry count allows has failed, and
\* retryFunction sleeps while Try waits for it.
C14_Witness ==
    \E i \in Units :
        /\ ipc[i] = "sleep" /\ upc[i] = "sync"
        /\ fhi.retries = 1 /\ it[i] = 1 /\ att[i] = 2
        /\ IsErr(rr[i])

\* The values of the Success outcomes folded among the units 1..k.
RECURSIVE FoldedValues(_)
FoldedValues(k) ==
    IF k = 0 THEN <<>>
    ELSE FoldedValues(k - 1) \o
         (IF upc[k] = "done" /\ IsOk(res[k]) THEN res[k].Values ELSE <<>>)

\* C16: in sequential mode the handler is invoked in list order, the values
\* in results are in list order, and no operation is invoked before the
\* outcome of every operation before it has been folded.
C16_SequentialOrder ==
    ~cfg0.isParallel =>
        /\ \A k, l \in 1..Len(hcalls) :
             k < l => hcalls[k].unit < hcalls[l].unit
        /\ results = FoldedValues(Len(funcs))
        /\ \A i \in Units : res[i].Values \in {<<>>, OpValues(i)}
        /\ \A i, j \in Units :
             (i < j /\ calls[j] >= 1) => upc[i] = "done"

\* C16 happens: a sequential Try gave the handler the first operation's
\* failure before the second operation was invoked, whose values it then
\* appended.
C16_Witness ==
    /\ ~cfg0.isParallel /\ Len(funcs) = 2
    /\ Len(hcalls) = 1 /\ hcalls[1].unit = 1 /\ hcalls[1].err.src = "op"
    /\ calls[2] = 1
    /\ results = OpValues(2)

\* C17 as amended: in sequential mode every invocation that is running is
\* that of the operation the loop is at, or was made for an operation whose
\* unit of work timed out; without a positive timeout at most one
\* invocation is running.
C17_OneUnlessAbandoned ==
    ~cfg0.isParallel =>
        /\ \A i \in Units :
             ipc[i] = "call" =>
                 \/ /\ tpc = "seq" /\ i = idx
                    /\ upc[i] \in {"sync", "poll", "parked"}
                 \/ /\ guarded[i] /\ upc[i] \in {"got", "done"}
                    /\ res[i] = Err(TryError("function timed out"))
        /\ cfg0.timeout <= 0 =>
             Cardinality({i \in Units : ipc[i] = "call"}) <= 1

\* C17 happens: the first operation timed out with its invocation still
\* running, and the second operation has been invoked.
C17_Witness ==
    /\ ~cfg0.isParallel /\ tpc = "seq" /\ idx = 2
    /\ ipc[1] = "call" /\ cur[1].op = 1
    /\ ipc[2] = "call" /\ cur[2].op = 2

\* C17 as stated: in sequential mode at most one invocation of an operation
\* of the batch is running at any moment.
C17_AtMostOneRunning ==
    ~cfg0.isParallel =>
        Cardinality({i \in Units : ipc[i] = "call"}) <= 1

\* The handler's k-th invocation returned a non-nil error.
FatalCall(k) == Len(hcalls[k].out) = 1 /\ hcalls[k].out[1] # NoErr

\* C18: in parallel mode, once the handler has returned a non-nil error
\* during the fold, that invocation is the handler's last, Try has returned
\* that error with a nil aggregate, no outcome after the fatal one in
\* resultCh is given to the handler or appended, and every operation's unit
\* of work had its outcome before the fold began.
C18_ParallelFatal ==
    \A k \in 1..Len(hcalls) :
        (cfg0.isParallel /\ FatalCall(k)) =>
            /\ k = Len(hcalls)
            /\ Returned
            /\ ret = <<[results |-> NilSlice, res |-> Err(hcalls[k].out[1])]>>
            /\ resultCh[idx].unit = hcalls[k].unit
            /\ \A p \in (idx + 1)..Len(resultCh) :
                 /\ \A l \in 1..Len(hcalls) : hcalls[l].unit # resultCh[p].unit
                 /\ resultCh[p].res.Values # <<>> =>
                      Elems(results) \cap Elems(resultCh[p].res.Values) = {}
            /\ \A i \in Units : upc[i] = "done"
            /\ Len(resultCh) = Len(funcs)

\* C18 happens: the first outcome folded was a failure for which the
\* handler returned an error, and Try returned with the second operation's
\* Success outcome left in resultCh.
C18_Witness ==
    /\ cfg0.isParallel /\ Returned /\ Len(funcs) = 2
    /\ Len(hcalls) = 1 /\ FatalCall(1)
    /\ idx = 1
    /\ IsOk(resultCh[2].res) /\ resultCh[2].res.Values # <<>>
    /\ results = <<>>

\* The unit of work of operation i timed out.
UnitTimedOut(i) ==
    /\ upc[i] \in {"got", "done"}
    /\ res[i] = Err(TryError("function timed out"))

\* C19: in both modes no value of an operation whose unit of work timed out
\* is in results or in the aggregate Try returns, also after the abandoned
\* invocation has completed: what it delivers stays in ch, which nothing
\* reads any more, and the outcome folded for the operation is the timeout.
C19_TimedOutValuesDiscarded ==
    \A i \in Units :
        UnitTimedOut(i) =>
            /\ Elems(results) \cap Elems(OpValues(i)) = {}
            /\ Returned => Elems(Aggregate.elems) \cap Elems(OpValues(i)) = {}
            /\ ipc[i] = "sent" => ch[i] = <<rr[i]>>
            /\ \A p \in 1..Len(resultCh) :
                 resultCh[p].unit = i => resultCh[p].res = res[i]
            /\ \A k \in 1..Len(hcalls) :
                 hcalls[k].unit = i => hcalls[k].err = res[i].Err

\* C19 happens: Try returned Success with the values of another operation
\* after giving the handler the timeout of an operation whose abandoned
\* invocation has since succeeded.
C19_Witness ==
    /\ Returned /\ Outcome0 = Success /\ Aggregate.elems # <<>>
    /\ \E i \in Units :
         /\ UnitTimedOut(i)
         /\ ipc[i] = "sent" /\ IsOk(rr[i]) /\ rr[i].Values = OpValues(i)
         /\ \E k \in 1..Len(hcalls) : hcalls[k].unit = i

\* C20: with a positive timeout and a handler that returns whenever it is
\* invoked, a Try call that has begun its loop returns in the end, in both
\* modes, whether or not the operations ever return.
C20_TryReturns ==
    (tpc \in {"seq", "par", "fold"} /\ cfg0.timeout > 0) ~> (tpc = "returned")

\* C20 happens: a parallel Try with a positive timeout has returned while
\* the invocations of both its operations are still running.
C20_Witness ==
    /\ cfg0.isParallel /\ cfg0.timeout > 0 /\ Returned /\ Len(funcs) = 2
    /\ \A i \in Units : ipc[i] = "call" /\ guarded[i]
    /\ Len(resultCh) = 2 /\ Len(hcalls) = 2

\* C15: the deadline of an operation is set once, the timeout after its
\* unit of work started, and a retry does not move it; while the select
\* waits, the time is not past it, and the operation's outcome is set no
\* later than it; an operation whose retryFunction has not returned by then,
\* whatever its attempts and delays added up to, has the timeout failure as
\* its outcome.
C15_OneDeadlineForAllAttempts ==
    \A i \in Units : guarded[i] =>
        /\ clk.deadline[i] = clk.start[i] + cfg0.timeout
        /\ upc[i] \in {"poll", "parked"} => clk.now <= clk.start[i] + cfg0.timeout
        /\ upc[i] \in {"got", "done"} =>
             /\ clk.end[i] <= clk.start[i] + cfg0.timeout
             /\ (ipc[i] # "sent" \/ clk.fin[i] > clk.start[i] + cfg0.timeout)
                  => res[i] = Err(TryError("function timed out"))

\* C15 happens: an operation's first attempt failed after the unit of work
\* started and before the timeout had passed (time.Sleep began then, a
\* second before wake), the second attempt began when time.Sleep was over
\* and was cut off less than the timeout later, at the deadline: each
\* attempt was shorter than the timeout, and the outcome is the timeout
\* failure.
C15_Witness ==
    \E i \in Units :
        /\ guarded[i] /\ upc[i] \in {"got", "done"}
        /\ res[i] = Err(TryError("function timed out"))
        /\ att[i] = 2 /\ ipc[i] = "call"
        /\ clk.wake[i] - Second > clk.start[i]
        /\ clk.wake[i] - Second - clk.start[i] < cfg0.timeout
        /\ clk.end[i] - clk.wake[i] < cfg0.timeout
        /\ clk.end[i] = clk.start[i] + cfg0.timeout
====
